---- MODULE Spec2Model ----
(***************************************************************************)
(* Model of the news cache of ashboi005/news-scraper.                      *)
(*                                                                         *)
(* The repository carries two implementations of the news service         *)
(* (getCachedNews / updateNewsCache and the per-site scrapers):            *)
(*   impl = "tiered"    part_001 lines 1..1445: fast sources in parallel,  *)
(*                      slower sources one by one, each raced against a    *)
(*                      timer, the whole read raced against a 50 s timer;  *)
(*   impl = "parallel"  part_001 lines 1446..2900: all scrapers under one  *)
(*                      Promise.all, the read awaits it.                   *)
(* Init picks the implementation; every action is guarded by it.           *)
(*                                                                         *)
(* JavaScript runs one callback at a time, so an action is one callback    *)
(* (a call, a promise settlement, a timer) together with the microtasks    *)
(* (await continuations, .then callbacks) it sets off.                     *)
(* Time is counted in seconds.                                             *)
(***************************************************************************)
EXTENDS Integers, Sequences, FiniteSets, TLC

VARIABLES ui, impl, now, newsCache, lastUpdate, calls, cyc, delays, everLive

vars == <<ui, impl, now, newsCache, lastUpdate, calls, cyc, delays, everLive>>

----------------------------------------------------------------------------
(* Bounds of the model *)

MaxCalls == 2
MaxTime == 2000
(* the most fetches that fail within one refresh cycle *)
MaxErrors == 1
(* the most times the clock moves on while a refresh cycle is in flight *)
MaxDelays == 1
(* the most refresh cycles that end with a fault of updateNewsCache itself *)
MaxFaults == 1

(* the reads issued in the specification with fairness *)
MaxLiveCalls == 1
(* the most calls of fetchNews the Home page makes *)
MaxFetches == 4

Calls == 1..MaxCalls

----------------------------------------------------------------------------
(* Program constants *)

CACHE_EXPIRY_SECONDS_TIERED == 1800
CACHE_EXPIRY_SECONDS_PARALLEL == 600
GLOBAL_TIMEOUT == 50
DEFAULT_TIMEOUT == 8
DDNEWS_TIMEOUT == 15
PIB_TIMEOUT == 50
FIRSTPOST_TIMEOUT == 50
(* scrapeDDNews: fetches of one page before it gives the page up, and the  *)
(* wait between two of them                                                *)
DDNEWS_ATTEMPTS == 3
DDNEWS_BACKOFF == 2

Null == -1

CACHE_EXPIRY_SECONDS == IF impl = "tiered" THEN CACHE_EXPIRY_SECONDS_TIERED
                        ELSE CACHE_EXPIRY_SECONDS_PARALLEL

fastSources == <<"BBC", "CNN", "WION">>

slowerSources == <<"REUTERS", "DD NEWS", "PIB", "FIRSTPOST">>

allSources == <<"BBC", "CNN", "REUTERS", "DD NEWS", "PIB", "PTI", "FIRSTPOST", "WION">>

timeout(name) == IF name = "DD NEWS" THEN DDNEWS_TIMEOUT
                 ELSE IF name = "PIB" THEN PIB_TIMEOUT
                 ELSE IF name = "FIRSTPOST" THEN FIRSTPOST_TIMEOUT
                 ELSE DEFAULT_TIMEOUT

(* how often the scraper of a source fetches a page that fails to load *)
attempts(name) == IF name = "DD NEWS" THEN DDNEWS_ATTEMPTS ELSE 1

----------------------------------------------------------------------------
(* A JavaScript object with string keys: the entries in insertion order *)

HasKey(obj, k) == \E i \in 1..Len(obj) : obj[i].k = k

Get(obj, k) == obj[CHOOSE i \in 1..Len(obj) : obj[i].k = k].v

GetOrEmpty(obj, k) == IF HasKey(obj, k) THEN Get(obj, k) ELSE <<>>

(* Put storing the articles without the last one *)
Put_partial(obj, k, v) ==
    LET w == IF Len(v) > 1 THEN SubSeq(v, 1, Len(v) - 1) ELSE v
    IN IF HasKey(obj, k)
       THEN [i \in 1..Len(obj) |-> IF obj[i].k = k THEN [k |-> k, v |-> w] ELSE obj[i]]
       ELSE Append(obj, [k |-> k, v |-> w])

Put(obj, k, v) ==
    IF HasKey(obj, k)
    THEN [i \in 1..Len(obj) |-> IF obj[i].k = k THEN [k |-> k, v |-> v] ELSE obj[i]]
    ELSE Append(obj, [k |-> k, v |-> v])

Keys(obj) == {obj[i].k : i \in 1..Len(obj)}

RECURSIVE ConcatValues(_)
ConcatValues(obj) ==
    IF obj = <<>> THEN <<>> ELSE Head(obj).v \o ConcatValues(Tail(obj))

Article(src, u) == [source |-> src, url |-> u]

FALLBACK_NEWS ==
    << [k |-> "BBC", v |-> <<Article("BBC", "fallback")>>],
       [k |-> "CNN", v |-> <<>>] >>

DummyData ==
    << [k |-> "BBC", v |-> <<Article("BBC", "sample1"), Article("BBC", "sample2")>>],
       [k |-> "CNN", v |-> <<Article("CNN", "sample")>>],
       [k |-> "REUTERS", v |-> <<Article("REUTERS", "sample")>>],
       [k |-> "DD NEWS", v |-> <<Article("DD NEWS", "sample")>>],
       [k |-> "FIRSTPOST", v |-> <<Article("FIRSTPOST", "sample")>>],
       [k |-> "WION", v |-> <<Article("WION", "sample")>>] >>

----------------------------------------------------------------------------
(* The scrapers.  What a site serves is the environment's choice: either   *)
(* the fetch fails, or the page yields the links of the candidates that    *)
(* pass the relevance filter, in page order.                               *)

PageError == <<"#error">>

Pages == { PageError, <<"a", "a">> }

RECURSIVE PushUnique(_, _)
PushUnique(articles, links) ==
    IF links = <<>> THEN articles
    ELSE IF \E i \in 1..Len(articles) : articles[i] = Head(links)
         THEN PushUnique(articles, Tail(links))
         ELSE PushUnique(Append(articles, Head(links)), Tail(links))

Links(name, page) ==
    IF page = PageError THEN <<>>
    ELSE IF name = "CNN" THEN page
    ELSE PushUnique(<<>>, page)

Scrape(name, page) ==
    [i \in 1..Len(Links(name, page)) |-> Article(name, Links(name, page)[i])]

Pending == [status |-> "pending", value |-> <<>>]

Fulfilled(v) == [status |-> "fulfilled", value |-> v]

----------------------------------------------------------------------------
(* Reads *)

NoSource == ""

SourceInputs == {NoSource, "bbc"}

toUpperCase(s) ==
    CASE s = "bbc" -> "BBC"
      [] s = "cnn" -> "CNN"
      [] s = "reuters" -> "REUTERS"
      [] s = "dd news" -> "DD NEWS"
      [] s = "pib" -> "PIB"
      [] s = "pti" -> "PTI"
      [] s = "firstpost" -> "FIRSTPOST"
      [] s = "wion" -> "WION"
      [] OTHER -> s

(* GET /api/news/sources: the ids of the sources the service lists *)
AdvertisedSources ==
    {"bbc", "cnn", "reuters", "dd news", "pib", "pti", "firstpost", "wion"}

View(obj, source) ==
    IF source # NoSource THEN GetOrEmpty(obj, toUpperCase(source))
    ELSE ConcatValues(obj)

NoRet == [field |-> "none", items |-> <<>>,
          lastUpdated |-> [type |-> "none", t |-> Null], via |-> "none"]

IdleCall == [st |-> "idle", source |-> NoSource, issuedAt |-> Null,
             lastAtIssue |-> Null, returnedAt |-> Null, ret |-> NoRet]

(* abandoned: the slower sources whose timer won the race while their      *)
(* scraper, which nothing cancels, is still running; pre: the cache as it  *)
(* was when the cycle began                                                *)
NoCycle == [st |-> "none", fastRes |-> <<Pending, Pending, Pending>>,
            slowIdx |-> 0, slowDeadline |-> Null, errors |-> 0,
            abandoned |-> {}, attempt |-> 0, backoffUntil |-> Null,
            pre |-> <<>>]

IsFreshTiered ==
    lastUpdate # Null /\ (now - lastUpdate) < CACHE_EXPIRY_SECONDS_TIERED

NeedsRefreshParallel ==
    lastUpdate = Null \/ (now - lastUpdate) > CACHE_EXPIRY_SECONDS_PARALLEL

IsFresh == IF impl = "tiered" THEN IsFreshTiered ELSE ~NeedsRefreshParallel

(* the lastUpdated of an answer: the Date object or null (tiered), the ISO *)
(* string of the instant or the empty string (parallel)                    *)
DateOrNull(t) == [type |-> IF t = Null THEN "null" ELSE "Date", t |-> t]

toISOString(t) == [type |-> "string", t |-> t]

LastUpdated(t) == IF impl = "tiered" THEN DateOrNull(t) ELSE toISOString(t)

Result(obj, last, source, via) ==
    [field |-> IF impl = "tiered" THEN "data" ELSE "articles",
     items |-> View(obj, source), lastUpdated |-> LastUpdated(last), via |-> via]

Issued(c, source) ==
    [calls[c] EXCEPT !.st = "waiting", !.source = source, !.issuedAt = now,
                     !.lastAtIssue = lastUpdate]

Returned(call, ret) == [call EXCEPT !.st = "returned", !.returnedAt = now, !.ret = ret]

(* the Home page before its effects have run: the initial values of its    *)
(* useState calls, and no call of fetchNews made yet                       *)
NoArticles == "[]"

InitHome ==
    [mounted |-> FALSE, activeSource |-> NoSource, articles |-> NoArticles,
     isLoading |-> TRUE, error |-> FALSE, fetches |-> {}, started |-> 0]

Init ==
    /\ ui = InitHome
    /\ impl \in {"tiered", "parallel"}
    /\ now = 0
    /\ newsCache = <<>>
    /\ lastUpdate = Null
    /\ calls = [c \in Calls |-> IdleCall]
    /\ cyc = [c \in Calls |-> NoCycle]
    /\ delays = 0
    /\ everLive = {}

(* getCachedNews(source): the fresh path answers from the cache; the stale *)
(* path starts updateNewsCache, which starts its scrapers, and waits.      *)
getCachedNews(c, source) ==
    /\ calls[c].st = "idle"
    /\ \A d \in Calls : d < c => calls[d].st # "idle"
    /\ IF IsFresh
       THEN /\ calls' = [calls EXCEPT ![c] =
                           Returned(Issued(c, source),
                                    Result(newsCache, lastUpdate, source, "fresh"))]
            /\ cyc' = cyc
       ELSE /\ calls' = [calls EXCEPT ![c] = Issued(c, source)]
            /\ cyc' = [cyc EXCEPT ![c] =
                          [NoCycle EXCEPT !.st = IF impl = "tiered" THEN "fast" ELSE "all",
                                          !.pre = newsCache]]
    /\ UNCHANGED <<ui, impl, now, newsCache, lastUpdate, delays, everLive>>

----------------------------------------------------------------------------
(* updateNewsCache, tiered implementation *)

(* MergeFast with the loop ending one result early *)
RECURSIVE MergeFast_offByOne(_, _, _)
MergeFast_offByOne(obj, fastResults, index) ==
    IF index >= Len(fastResults) THEN obj
    ELSE MergeFast_offByOne(IF fastResults[index].status = "fulfilled"
                            THEN Put(obj, fastSources[index], fastResults[index].value)
                            ELSE obj,
                            fastResults, index + 1)

RECURSIVE MergeFast(_, _, _)
MergeFast(obj, fastResults, index) ==
    IF index > Len(fastResults) THEN obj
    ELSE MergeFast(IF fastResults[index].status = "fulfilled"
                   THEN Put(obj, fastSources[index], fastResults[index].value)
                   ELSE obj,
                   fastResults, index + 1)

Failures(page) == IF page = PageError THEN 1 ELSE 0

StartSlow(c, k, errors, abandoned) ==
    [NoCycle EXCEPT !.st = "slow", !.slowIdx = k, !.errors = errors,
                    !.slowDeadline = now + timeout(slowerSources[k]),
                    !.attempt = 1, !.abandoned = abandoned, !.pre = cyc[c].pre]

DoneCycle == [NoCycle EXCEPT !.st = "done"]

(* updateNewsCache has thrown: its catch logs and throws again *)
FailedCycle == [NoCycle EXCEPT !.st = "failed"]

(* AfterSlow with the for loop trying the same slower source again *)
AfterSlow_sameSource(c, obj, errors, abandoned) ==
    /\ cyc' = [cyc EXCEPT ![c] = StartSlow(c, cyc[c].slowIdx, errors, abandoned)]
    /\ calls' = calls

(* the for loop moves on to the next slower source, or the cycle ends and  *)
(* the .then callback of the read, if it still waits, builds the answer    *)
AfterSlow(c, obj, errors, abandoned) ==
    IF cyc[c].slowIdx < Len(slowerSources)
    THEN /\ cyc' = [cyc EXCEPT ![c] = StartSlow(c, cyc[c].slowIdx + 1, errors, abandoned)]
         /\ calls' = calls
    ELSE /\ cyc' = [cyc EXCEPT ![c] = [DoneCycle EXCEPT !.abandoned = abandoned]]
         /\ calls' = [calls EXCEPT ![c] =
                         IF @.st = "waiting"
                         THEN Returned(@, Result(obj, lastUpdate, @.source, "cycle"))
                         ELSE @]

(* fastSettle with the write of lastUpdate after the fast sources left out *)
fastSettle_noStamp(c, index, page) ==
    /\ impl = "tiered"
    /\ cyc[c].st = "fast"
    /\ cyc[c].fastRes[index].status = "pending"
    /\ cyc[c].errors + Failures(page) <= MaxErrors
    /\ LET fastResults == [cyc[c].fastRes EXCEPT
                              ![index] = Fulfilled(Scrape(fastSources[index], page))]
       IN IF \A j \in 1..Len(fastSources) : fastResults[j].status # "pending"
          THEN /\ newsCache' = MergeFast(newsCache, fastResults, 1)
               /\ cyc' = [cyc EXCEPT ![c] =
                             StartSlow(c, 1, cyc[c].errors + Failures(page), {})]
               /\ everLive' = everLive \cup
                      {fastSources[j] : j \in {i \in 1..Len(fastSources) :
                                                 Len(fastResults[i].value) > 0}}
          ELSE /\ cyc' = [cyc EXCEPT ![c].fastRes = fastResults,
                                     ![c].errors = @ + Failures(page)]
               /\ UNCHANGED <<newsCache, everLive>>
    /\ UNCHANGED <<ui, impl, now, calls, delays, lastUpdate>>

(* one fast scraper settles; when it is the last one, Promise.allSettled   *)
(* resolves, the results are stored, lastUpdate is set and the first       *)
(* slower source is started                                                *)
fastSettle(c, index, page) ==
    /\ impl = "tiered"
    /\ cyc[c].st = "fast"
    /\ cyc[c].fastRes[index].status = "pending"
    /\ cyc[c].errors + Failures(page) <= MaxErrors
    /\ LET fastResults == [cyc[c].fastRes EXCEPT
                              ![index] = Fulfilled(Scrape(fastSources[index], page))]
       IN IF \A j \in 1..Len(fastSources) : fastResults[j].status # "pending"
          THEN /\ newsCache' = MergeFast(newsCache, fastResults, 1)
               /\ lastUpdate' = now
               /\ cyc' = [cyc EXCEPT ![c] =
                             StartSlow(c, 1, cyc[c].errors + Failures(page), {})]
               /\ everLive' = everLive \cup
                      {fastSources[j] : j \in {i \in 1..Len(fastSources) :
                                                 Len(fastResults[i].value) > 0}}
          ELSE /\ cyc' = [cyc EXCEPT ![c].fastRes = fastResults,
                                     ![c].errors = @ + Failures(page)]
               /\ UNCHANGED <<newsCache, lastUpdate, everLive>>
    /\ UNCHANGED <<ui, impl, now, calls, delays>>

(* a fetch of the current slower source fails and its scraper tries the   *)
(* page again after a wait (scrapeDDNews only)                             *)
slowFetchFailed(c) ==
    /\ impl = "tiered"
    /\ cyc[c].st = "slow"
    /\ cyc[c].backoffUntil = Null
    /\ cyc[c].attempt < attempts(slowerSources[cyc[c].slowIdx])
    /\ cyc[c].errors + 1 <= MaxErrors
    /\ cyc' = [cyc EXCEPT ![c].errors = @ + 1,
                          ![c].backoffUntil = now + DDNEWS_BACKOFF]
    /\ UNCHANGED <<ui, impl, now, newsCache, lastUpdate, calls, delays, everLive>>

(* the wait is over: the scraper fetches the page again *)
slowBackoffDone(c) ==
    /\ impl = "tiered"
    /\ cyc[c].st = "slow"
    /\ cyc[c].backoffUntil # Null
    /\ now >= cyc[c].backoffUntil
    /\ cyc' = [cyc EXCEPT ![c].attempt = @ + 1, ![c].backoffUntil = Null]
    /\ UNCHANGED <<ui, impl, now, newsCache, lastUpdate, calls, delays, everLive>>

(* slowSettle with the articles added to the slot instead of replacing it *)
slowSettle_append(c, page) ==
    /\ impl = "tiered"
    /\ cyc[c].st = "slow"
    /\ cyc[c].backoffUntil = Null
    /\ page = PageError => cyc[c].attempt = attempts(slowerSources[cyc[c].slowIdx])
    /\ cyc[c].errors + Failures(page) <= MaxErrors
    /\ LET name == slowerSources[cyc[c].slowIdx]
           obj == Put(newsCache, name, GetOrEmpty(newsCache, name) \o Scrape(name, page))
       IN /\ newsCache' = obj
          /\ AfterSlow(c, obj, cyc[c].errors + Failures(page), cyc[c].abandoned)
          /\ everLive' = IF Len(Scrape(name, page)) > 0 THEN everLive \cup {name}
                         ELSE everLive
    /\ UNCHANGED <<ui, impl, now, lastUpdate, delays>>

(* the scraper of the current slower source wins the race: its fetch      *)
(* succeeded, or failed for the last time and the scraper returns []      *)
slowSettle(c, page) ==
    /\ impl = "tiered"
    /\ cyc[c].st = "slow"
    /\ cyc[c].backoffUntil = Null
    /\ page = PageError => cyc[c].attempt = attempts(slowerSources[cyc[c].slowIdx])
    /\ cyc[c].errors + Failures(page) <= MaxErrors
    /\ LET name == slowerSources[cyc[c].slowIdx]
           obj == Put(newsCache, name, Scrape(name, page))
       IN /\ newsCache' = obj
          /\ AfterSlow(c, obj, cyc[c].errors + Failures(page), cyc[c].abandoned)
          /\ everLive' = IF Len(Scrape(name, page)) > 0 THEN everLive \cup {name}
                         ELSE everLive
    /\ UNCHANGED <<ui, impl, now, lastUpdate, delays>>

(* slowTimeout with the fallback stored only for a source that has one *)
slowTimeout_noSlot(c) ==
    /\ impl = "tiered"
    /\ cyc[c].st = "slow"
    /\ now >= cyc[c].slowDeadline
    /\ LET name == slowerSources[cyc[c].slowIdx]
           obj == IF (~HasKey(newsCache, name) \/ Len(Get(newsCache, name)) = 0)
                     /\ HasKey(FALLBACK_NEWS, name)
                  THEN Put(newsCache, name, Get(FALLBACK_NEWS, name))
                  ELSE newsCache
       IN /\ newsCache' = obj
          /\ AfterSlow(c, obj, cyc[c].errors, cyc[c].abandoned \cup {name})
    /\ UNCHANGED <<ui, impl, now, lastUpdate, delays, everLive>>

(* the timer of the current slower source wins the race *)
slowTimeout(c) ==
    /\ impl = "tiered"
    /\ cyc[c].st = "slow"
    /\ now >= cyc[c].slowDeadline
    /\ LET name == slowerSources[cyc[c].slowIdx]
           obj == IF ~HasKey(newsCache, name) \/ Len(Get(newsCache, name)) = 0
                  THEN Put(newsCache, name, GetOrEmpty(FALLBACK_NEWS, name))
                  ELSE newsCache
       IN /\ newsCache' = obj
          /\ AfterSlow(c, obj, cyc[c].errors, cyc[c].abandoned \cup {name})
    /\ UNCHANGED <<ui, impl, now, lastUpdate, delays, everLive>>

(* the scraper of a slower source settles after its timer has won the     *)
(* race: Promise.race has settled already, the articles go nowhere         *)
lateSettle(c, name, page) ==
    /\ impl = "tiered"
    /\ name \in cyc[c].abandoned
    /\ cyc' = [cyc EXCEPT ![c].abandoned = @ \ {name}]
    /\ UNCHANGED <<ui, impl, now, newsCache, lastUpdate, calls, delays, everLive>>

(* the 50 s timer of a read wins the race against updateNewsCache *)
(* globalTimeout with the catch branch writing lastUpdate *)
globalTimeout_stamp(c) ==
    /\ impl = "tiered"
    /\ calls[c].st = "waiting"
    /\ now >= calls[c].issuedAt + GLOBAL_TIMEOUT
    /\ calls' = [calls EXCEPT ![c] = Returned(@, Result(FALLBACK_NEWS, now, @.source, "timeout"))]
    /\ lastUpdate' = now
    /\ UNCHANGED <<ui, impl, now, newsCache, cyc, delays, everLive>>

globalTimeout(c) ==
    /\ impl = "tiered"
    /\ calls[c].st = "waiting"
    /\ now >= calls[c].issuedAt + GLOBAL_TIMEOUT
    /\ calls' = [calls EXCEPT ![c] =
                    Returned(@, Result(FALLBACK_NEWS, now, @.source, "timeout"))]
    /\ UNCHANGED <<ui, impl, now, newsCache, lastUpdate, cyc, delays, everLive>>

----------------------------------------------------------------------------
(* updateNewsCache, parallel implementation *)

(* BuildCache reading the results from the wrong end *)
RECURSIVE BuildCache_shifted(_, _, _)
BuildCache_shifted(obj, results, index) ==
    IF index > Len(allSources) THEN obj
    ELSE BuildCache_shifted(Put(obj, allSources[index],
                                results[Len(allSources) + 1 - index]),
                            results, index + 1)

RECURSIVE BuildCache(_, _, _)
BuildCache(obj, results, index) ==
    IF index > Len(allSources) THEN obj
    ELSE BuildCache(Put(obj, allSources[index], results[index]), results, index + 1)

RECURSIVE PutAll(_, _)
PutAll(obj, entries) ==
    IF entries = <<>> THEN obj
    ELSE PutAll(Put(obj, Head(entries).k, Head(entries).v), Tail(entries))

NewCache(results) ==
    LET newCache == BuildCache(<<>>, results, 1)
    IN IF \A i \in 1..Len(newCache) : Len(newCache[i].v) = 0
       THEN PutAll(newCache, DummyData)
       ELSE newCache

RECURSIVE CountErrors(_)
CountErrors(pages) ==
    IF pages = <<>> THEN 0 ELSE Failures(Head(pages)) + CountErrors(Tail(pages))

(* what the sites serve in one cycle: a few fetches fail, or all of them *)
PageVectors ==
    {pages \in [1..Len(allSources) -> Pages] :
        CountErrors(pages) <= MaxErrors \/ CountErrors(pages) = Len(allSources)}

(* Promise.all resolves: every scraper has settled *)
allScraped(c, pages) ==
    /\ impl = "parallel"
    /\ cyc[c].st = "all"
    /\ LET results == [i \in 1..Len(allSources) |-> Scrape(allSources[i], pages[i])]
           obj == NewCache(results)
       IN /\ newsCache' = obj
          /\ lastUpdate' = now
          /\ calls' = [calls EXCEPT ![c] =
                          Returned(@, Result(obj, now, @.source, "cycle"))]
          /\ everLive' = everLive \cup
                 {allSources[j] : j \in {i \in 1..Len(allSources) : Len(results[i]) > 0}}
    /\ cyc' = [cyc EXCEPT ![c] = DoneCycle]
    /\ UNCHANGED <<ui, impl, now, delays>>

----------------------------------------------------------------------------
(* A fault of updateNewsCache itself: the code that runs after an await    *)
(* throws, the catch of updateNewsCache logs and throws again (lines       *)
(* 187-190 and 1564-1567).  The places taken: the code after               *)
(* Promise.allSettled before the results are stored (line 116), the        *)
(* summary after the last slower source (line 179), the code after         *)
(* Promise.all before the cache is replaced (lines 1513-1559).             *)

Thrown == [NoRet EXCEPT !.via = "throw"]

(* the catch of the tiered getCachedNews takes every rejection of the race *)
Caught(call) ==
    IF call.st = "waiting"
    THEN Returned(call, Result(FALLBACK_NEWS, now, call.source, "error"))
    ELSE call

updateFault(c, page) ==
    /\ Cardinality({d \in Calls : cyc[d].st = "failed"}) < MaxFaults
    /\ cyc[c].errors + Failures(page) <= MaxErrors
    /\ \/ /\ impl = "parallel"
          /\ cyc[c].st = "all"
          /\ calls' = [calls EXCEPT ![c] = Returned(@, Thrown)]
          /\ UNCHANGED <<newsCache, everLive>>
       \/ /\ impl = "tiered"
          /\ cyc[c].st = "fast"
          /\ Cardinality({j \in 1..Len(fastSources) :
                             cyc[c].fastRes[j].status = "pending"}) = 1
          /\ calls' = [calls EXCEPT ![c] = Caught(@)]
          /\ UNCHANGED <<newsCache, everLive>>
       \/ /\ impl = "tiered"
          /\ cyc[c].st = "slow"
          /\ cyc[c].slowIdx = Len(slowerSources)
          /\ cyc[c].backoffUntil = Null
          /\ page = PageError => cyc[c].attempt = attempts(slowerSources[cyc[c].slowIdx])
          /\ LET name == slowerSources[cyc[c].slowIdx]
             IN /\ newsCache' = Put(newsCache, name, Scrape(name, page))
                /\ everLive' = IF Len(Scrape(name, page)) > 0 THEN everLive \cup {name}
                               ELSE everLive
          /\ calls' = [calls EXCEPT ![c] = Caught(@)]
    /\ cyc' = [cyc EXCEPT ![c] = [FailedCycle EXCEPT !.abandoned = cyc[c].abandoned]]
    /\ UNCHANGED <<ui, impl, now, lastUpdate, delays>>

----------------------------------------------------------------------------
(* Time.  A timer that is due fires before the clock moves on; the clock   *)
(* moves to the next instant at which something can change: a pending      *)
(* timer, the end of the 50 s a read is given, the expiry of the cache.    *)

TimerDeadlines ==
    {calls[c].issuedAt + GLOBAL_TIMEOUT : c \in {d \in Calls : impl = "tiered" /\ calls[d].st = "waiting"}}
    \cup {cyc[c].slowDeadline : c \in {d \in Calls : cyc[d].st = "slow"}}
    \cup {cyc[c].backoffUntil : c \in {d \in Calls : cyc[d].backoffUntil # Null}}

TickTargets ==
    TimerDeadlines
    \cup {calls[c].issuedAt + GLOBAL_TIMEOUT + 1 : c \in {d \in Calls : calls[d].st = "waiting"}}
    \cup (IF lastUpdate = Null THEN {}
          ELSE {lastUpdate + CACHE_EXPIRY_SECONDS + d : d \in {-1, 0, 1}})

InFlight == \E c \in Calls : cyc[c].st \in {"fast", "slow", "all"}

Tick ==
    /\ \E t \in TickTargets :
          /\ t > now
          /\ t <= MaxTime
          /\ \A d \in TimerDeadlines : t <= d
          /\ now' = t
    /\ IF InFlight
       THEN delays < MaxDelays /\ delays' = delays + 1
       ELSE (\E c \in Calls : calls[c].st = "idle") /\ delays' = delays
    /\ UNCHANGED <<ui, impl, newsCache, lastUpdate, calls, cyc, everLive>>

Next ==
    \/ \E c \in Calls, source \in SourceInputs : getCachedNews(c, source)
    \/ \E c \in Calls, index \in 1..Len(fastSources), page \in Pages : fastSettle(c, index, page)
    \/ \E c \in Calls : slowFetchFailed(c)
    \/ \E c \in Calls : slowBackoffDone(c)
    \/ \E c \in Calls, page \in Pages : slowSettle(c, page)
    \/ \E c \in Calls : slowTimeout(c)
    \/ \E c \in Calls, i \in 1..Len(slowerSources), page \in Pages :
          lateSettle(c, slowerSources[i], page)
    \/ \E c \in Calls : globalTimeout(c)
    \/ \E c \in Calls, pages \in PageVectors : allScraped(c, pages)
    \/ \E c \in Calls, page \in Pages : updateFault(c, page)
    \/ Tick

Spec == Init /\ [][Next]_vars

----------------------------------------------------------------------------
(* The tiered implementation with the clock driven by its timers: time     *)
(* moves to the deadline of the next pending setTimeout, and a timer whose *)
(* deadline is reached fires.  Scrapers of the fast sources settle; those  *)
(* of the slower sources may stay pending for ever.                        *)

InitLive == Init /\ impl = "tiered"

(* TimerTick advancing only to the 50 s deadline of a waiting read *)
TimerTick_onlyGlobal ==
    /\ \E t \in {calls[c].issuedAt + GLOBAL_TIMEOUT :
                    c \in {d \in Calls : calls[d].st = "waiting"}} :
          /\ t > now
          /\ \A d \in TimerDeadlines : t <= d
          /\ now' = t
    /\ UNCHANGED <<ui, impl, newsCache, lastUpdate, calls, cyc, delays, everLive>>

TimerTick ==
    /\ \E t \in TimerDeadlines :
          /\ t > now
          /\ \A d \in TimerDeadlines : t <= d
          /\ now' = t
    /\ UNCHANGED <<ui, impl, newsCache, lastUpdate, calls, cyc, delays, everLive>>

LiveCalls == 1..MaxLiveCalls

NextLive ==
    \/ \E c \in LiveCalls, source \in SourceInputs : getCachedNews(c, source)
    \/ \E c \in LiveCalls, index \in 1..Len(fastSources), page \in Pages : fastSettle(c, index, page)
    \/ \E c \in LiveCalls : slowFetchFailed(c)
    \/ \E c \in LiveCalls : slowBackoffDone(c)
    \/ \E c \in LiveCalls, page \in Pages : slowSettle(c, page)
    \/ \E c \in LiveCalls : slowTimeout(c)
    \/ \E c \in LiveCalls, i \in 1..Len(slowerSources), page \in Pages :
          lateSettle(c, slowerSources[i], page)
    \/ \E c \in LiveCalls : globalTimeout(c)
    \/ \E c \in LiveCalls, page \in Pages : updateFault(c, page)
    \/ TimerTick

LiveSpec ==
    /\ InitLive
    /\ [][NextLive]_vars
    /\ WF_vars(TimerTick)
    /\ \A c \in LiveCalls :
          /\ WF_vars(\E index \in 1..Len(fastSources), page \in Pages :
                        fastSettle(c, index, page))
          /\ WF_vars(slowTimeout(c))
          /\ WF_vars(slowBackoffDone(c))
          /\ WF_vars(globalTimeout(c))

----------------------------------------------------------------------------
(* The Home page.  activeSource is null (NoSource) for all news.  Each     *)
(* call of fetchNews is a request in flight until its promise settles;     *)
(* the articles it resolves with are those of the source it asked for.     *)

SourceIds == {NoSource, "bbc", "cnn"}

(* what fetchNews(source || undefined) resolves with: data.data of the     *)
(* answer of GET /api/news for that source                                 *)
NewsData(source) == IF source = NoSource THEN "all" ELSE toUpperCase(source)

(* setIsLoading(true); setError(null); fetchNews(source) *)
StartFetch(u, source) ==
    [u EXCEPT !.isLoading = TRUE, !.error = FALSE,
              !.started = @ + 1,
              !.fetches = @ \cup {[id |-> u.started + 1, source |-> source]}]

(* the effects of the first render: loadNews for all news *)
mount ==
    /\ ~ui.mounted
    /\ ui' = StartFetch([ui EXCEPT !.mounted = TRUE], ui.activeSource)
    /\ UNCHANGED <<impl, now, newsCache, lastUpdate, calls, cyc, delays, everLive>>

(* handleSourceSelect(sourceId), the render it causes, and the effect on   *)
(* [activeSource] running loadNews                                         *)
handleSourceSelect(sourceId) ==
    /\ ui.mounted
    /\ sourceId # ui.activeSource
    /\ ui.started < MaxFetches
    /\ ui' = StartFetch([ui EXCEPT !.activeSource = sourceId], sourceId)
    /\ UNCHANGED <<impl, now, newsCache, lastUpdate, calls, cyc, delays, everLive>>

(* a click on Refresh; the button is disabled while isLoading *)
handleRefresh ==
    /\ ui.mounted
    /\ ~ui.isLoading
    /\ ui.started < MaxFetches
    /\ ui' = StartFetch(ui, ui.activeSource)
    /\ UNCHANGED <<impl, now, newsCache, lastUpdate, calls, cyc, delays, everLive>>

(* the promise of one fetchNews call settles: setArticles or setError,     *)
(* and in either case setIsLoading(false)                                  *)
fetchSettled(f, ok) ==
    /\ f \in ui.fetches
    /\ ui' = [ui EXCEPT !.fetches = @ \ {f},
                        !.articles = IF ok THEN NewsData(f.source) ELSE @,
                        !.error = IF ok THEN @ ELSE TRUE,
                        !.isLoading = FALSE]
    /\ UNCHANGED <<impl, now, newsCache, lastUpdate, calls, cyc, delays, everLive>>

Fetches == [id : 1..MaxFetches, source : SourceIds]

NextHome ==
    \/ mount
    \/ \E sourceId \in SourceIds : handleSourceSelect(sourceId)
    \/ handleRefresh
    \/ \E f \in Fetches, ok \in BOOLEAN : fetchSettled(f, ok)

HomeSpec == Init /\ [][NextHome]_vars

----------------------------------------------------------------------------
(* GET /api/news: the answer of the route to the request whose read is     *)
(* call.  The route takes the properties articles and lastUpdated of what  *)
(* getCachedNews returns; a property that is undefined is left out of the  *)
(* JSON body (hasData).                                                    *)

NoResponse == [status |-> 0, error |-> "", hasData |-> FALSE, data |-> <<>>,
               last_updated |-> NoRet.lastUpdated, source |-> ""]

(* GET with an empty list of articles taken for a failure *)
GET_strict(call) ==
    IF call.ret.via = "throw" \/ call.ret.items = <<>>
    THEN [NoResponse EXCEPT !.status = 500, !.error = "Failed to retrieve news"]
    ELSE [NoResponse EXCEPT
             !.status = 200,
             !.hasData = (call.ret.field = "articles"),
             !.data = IF call.ret.field = "articles" THEN call.ret.items ELSE <<>>,
             !.last_updated = call.ret.lastUpdated,
             !.source = IF call.source # NoSource THEN toUpperCase(call.source)
                        ELSE "all"]

GET(call) ==
    IF call.ret.via = "throw"
    THEN [NoResponse EXCEPT !.status = 500, !.error = "Failed to retrieve news"]
    ELSE [NoResponse EXCEPT
             !.status = 200,
             !.hasData = (call.ret.field = "articles"),
             !.data = IF call.ret.field = "articles" THEN call.ret.items ELSE <<>>,
             !.last_updated = call.ret.lastUpdated,
             !.source = IF call.source # NoSource THEN toUpperCase(call.source)
                        ELSE "all"]

TypeOK ==
    /\ ui.activeSource \in SourceIds
    /\ ui.fetches \subseteq Fetches
    /\ ui.started \in 0..MaxFetches
    /\ impl \in {"tiered", "parallel"}
    /\ now \in 0..MaxTime
    /\ lastUpdate \in {Null} \cup (0..MaxTime)
    /\ \A c \in Calls : calls[c].st \in {"idle", "waiting", "returned"}
    /\ \A c \in Calls : cyc[c].st \in {"none", "fast", "slow", "all", "done", "failed"}

----------------------------------------------------------------------------
(* Properties *)

Configured ==
    IF impl = "tiered"
    THEN {fastSources[i] : i \in 1..Len(fastSources)}
         \cup {slowerSources[i] : i \in 1..Len(slowerSources)}
    ELSE {allSources[i] : i \in 1..Len(allSources)}

FallbackEntry(p) == GetOrEmpty(FALLBACK_NEWS, p)

Running(cycle) == cycle.st \in {"fast", "slow", "all"}

Concludes(c) == Running(cyc[c]) /\ cyc'[c].st = "done"

Returns(c) == calls[c].st = "waiting" /\ calls'[c].st = "returned"

Arrives(c) == calls[c].st = "idle" /\ calls'[c].st # "idle"

(* C1: TTL gating.  A read issued while now - lastUpdate < TTL starts no   *)
(* refresh cycle (hence invokes no scraper) and is answered from the       *)
(* cache; a read starts a refresh exactly when lastUpdate is unset or      *)
(* now - lastUpdate >= TTL.                                                *)
C1_TTLGating ==
    \A c \in Calls :
        calls[c].st # "idle" =>
            LET unset == calls[c].lastAtIssue = Null
                age == calls[c].issuedAt - calls[c].lastAtIssue
            IN /\ (~unset /\ age < CACHE_EXPIRY_SECONDS)
                     => (cyc[c].st = "none" /\ calls[c].ret.via = "fresh")
               /\ (unset \/ age >= CACHE_EXPIRY_SECONDS) => cyc[c].st # "none"

(* C2: a stale read, when it returns, returns the current contents of the  *)
(* cache (filtered to its provider) and the cache's own lastUpdate; it     *)
(* never answers from the fallback data directly.  (A read that throws     *)
(* returns nothing.)                                                       *)
C2_StaleReadReturnsCache ==
    [][\A c \in Calls :
          (Returns(c) /\ calls'[c].ret.via # "throw") =>
             /\ calls'[c].ret.items = View(newsCache', calls[c].source)
             /\ calls'[c].ret.lastUpdated.t = lastUpdate'
             /\ calls'[c].ret.via = "cycle"]_vars

(* C3: at most one refresh: at every moment at most one refresh cycle is   *)
(* in flight, however many reads found the cache stale.                    *)
C3_AtMostOneRefresh ==
    Cardinality({c \in Calls : Running(cyc[c])}) <= 1

(* C4: non-regression.  A slot that holds the records of a live result    *)
(* is never emptied or removed: a failed or empty extraction leaves the    *)
(* records of the earlier cycle in place.                                  *)
C4_NonRegression ==
    [][\A p \in Configured \cap everLive :
          Len(GetOrEmpty(newsCache, p)) > 0 => Len(GetOrEmpty(newsCache', p)) > 0]_vars

(* C5: fallback floor.  When a refresh cycle of the implementation that    *)
(* has the fallback data concludes, every provider that never produced a   *)
(* non-empty live result holds its fallback entry.                         *)
C5_FallbackFloor ==
    [][(impl = "tiered" /\ \E c \in Calls : Concludes(c)) =>
          \A p \in Configured \ everLive' :
             GetOrEmpty(newsCache', p) = FallbackEntry(p)]_vars

(* C6: a read returns no later than the global deadline after it was       *)
(* issued, however long the scrapers take.                                 *)
C6_ReadWithinDeadline ==
    \A c \in Calls :
        /\ calls[c].st = "waiting" => now - calls[c].issuedAt <= GLOBAL_TIMEOUT
        /\ calls[c].st = "returned"
              => calls[c].returnedAt - calls[c].issuedAt <= GLOBAL_TIMEOUT

(* C7: a read that arrives while a refresh cycle is in flight returns at   *)
(* once with the cache as it is and starts no cycle of its own.            *)
C7_ReadDuringRefresh ==
    [][\A c \in Calls :
          (Arrives(c) /\ \E d \in Calls : Running(cyc[d])) =>
             /\ calls'[c].st = "returned"
             /\ cyc'[c].st = "none"
             /\ calls'[c].ret.items = View(newsCache, calls'[c].source)]_vars

StampStep(c) ==
    \/ cyc[c].st = "fast" /\ cyc'[c].st = "slow"
    \/ cyc[c].st = "all" /\ cyc'[c].st = "done"

C9_PerProviderDedup ==
    \A k \in 1..Len(newsCache) :
        \A i, j \in 1..Len(newsCache[k].v) :
            newsCache[k].v[i].url = newsCache[k].v[j].url => i = j

(* C10: a single provider's failure never spoils the aggregate read: the   *)
(* read returns, in full, the slots of all providers, and no step empties  *)
(* a slot that held records.                                               *)
C10_ProviderFailureIsolated ==
    [][/\ \A c \in Calls :
             (Returns(c) /\ calls[c].source = NoSource /\ calls'[c].ret.via # "throw") =>
                calls'[c].ret.items = ConcatValues(newsCache')
       /\ \A p \in Configured :
             newsCache' # newsCache /\ Len(GetOrEmpty(newsCache, p)) > 0
                => Len(GetOrEmpty(newsCache', p)) >= 1]_vars

(* the slower sources of cycle c whose scraper is running: the one being  *)
(* raced and the abandoned ones                                            *)
RunningSlow(c) ==
    (IF cyc[c].st = "slow" THEN {slowerSources[cyc[c].slowIdx]} ELSE {})
    \cup cyc[c].abandoned

(* C11: slow-tier ordering.  Within one refresh cycle at no moment two     *)
(* scrapers of slower sources are running at once, also after a source     *)
(* was abandoned by its timer.                                             *)
C11_SlowTierOneAtATime ==
    \A c \in Calls : Cardinality(RunningSlow(c)) <= 1

StartsSlow(c) ==
    /\ cyc'[c].st = "slow"
    /\ cyc[c].st # "slow" \/ cyc'[c].slowIdx # cyc[c].slowIdx

(* C12: once the global deadline of a cycle has been reached the cycle     *)
(* starts no further slower source, so the cycle is over no later than     *)
(* the global deadline plus one sub-deadline.                              *)
C12_NoStartAfterGlobalDeadline ==
    [][\A c \in Calls :
          impl = "tiered" =>
             /\ StartsSlow(c) => now < calls[c].issuedAt + GLOBAL_TIMEOUT
             /\ Running(cyc'[c])
                   => now' <= calls'[c].issuedAt + GLOBAL_TIMEOUT + PIB_TIMEOUT]_vars

GlobalFired(c) == calls[c].st = "returned" /\ calls[c].ret.via = "timeout"

(* C13: a result that lands after its deadline never changes the cache:    *)
(* the articles of an abandoned scraper, and any result of a cycle whose   *)
(* global deadline has fired, leave newsCache and lastUpdate untouched.    *)
C13_LateResultDiscarded ==
    [][\A c \in Calls :
          /\ (\E i \in 1..Len(slowerSources), page \in Pages :
                  lateSettle(c, slowerSources[i], page))
                => (newsCache' = newsCache /\ lastUpdate' = lastUpdate)
          /\ (GlobalFired(c) /\
                 ((\E i \in 1..Len(fastSources), page \in Pages : fastSettle(c, i, page))
                  \/ (\E page \in Pages : slowSettle(c, page))))
                => (newsCache' = newsCache /\ lastUpdate' = lastUpdate)]_vars

(* C14: fast-tier partial merge.  The records of a fast source are in the  *)
(* cache as soon as that source settles, whatever the other fast sources   *)
(* do.                                                                     *)
C14_FastMergedOnSettle ==
    [][\A c \in Calls, i \in 1..Len(fastSources), page \in Pages :
          (fastSettle(c, i, page) /\ Len(Scrape(fastSources[i], page)) > 0)
             => GetOrEmpty(newsCache', fastSources[i]) = Scrape(fastSources[i], page)]_vars

(* C15: retry policy.  In one cycle a slower source is attempted at most   *)
(* 3 times, a new attempt follows only a failed one and a wait, and the    *)
(* source is given up as failed only after its third failed attempt.       *)
C15_RetryPolicy ==
    [][\A c \in Calls :
          /\ cyc'[c].st = "slow" => cyc'[c].attempt <= 3
          /\ (cyc[c].st = "slow" /\ cyc'[c].st = "slow"
                 /\ cyc'[c].slowIdx = cyc[c].slowIdx
                 /\ cyc'[c].attempt # cyc[c].attempt)
                => /\ cyc'[c].attempt = cyc[c].attempt + 1
                   /\ cyc[c].backoffUntil # Null
                   /\ now >= cyc[c].backoffUntil
          /\ slowSettle(c, PageError) => cyc[c].attempt = 3]_vars

Faults(c) == cyc[c].st # "failed" /\ cyc'[c].st = "failed"

(* C16: when a refresh cycle ends with a fault of updateNewsCache itself,  *)
(* the cache is as it was before the cycle, lastUpdate is advanced all the *)
(* same, and the reader is not given the fault.                            *)
C16_InternalFault ==
    [][\A c \in Calls :
          Faults(c) => /\ newsCache' = cyc[c].pre
                       /\ lastUpdate' = now
                       /\ calls'[c].ret.via # "throw"]_vars

(* C17 as stated: in every reachable state the keys of newsCache are       *)
(* exactly the configured providers.                                       *)
C17_KeysAreConfigured ==
    Keys(newsCache) = Configured

(* C17 amended: the keys of newsCache are always among the configured      *)
(* providers, and once a refresh cycle has run to its end every            *)
(* configured provider has a slot; before that (at process start, in the   *)
(* middle of the first cycle) slots are missing.                           *)
C17_KeysWithinConfigured ==
    /\ Keys(newsCache) \subseteq Configured
    /\ (\E c \in Calls : cyc[c].st = "done") => Keys(newsCache) = Configured

(* in the middle of a cycle some providers have a slot and others none *)
C17_Witness ==
    \E c \in Calls :
        /\ cyc[c].st = "slow"
        /\ Keys(newsCache) # {}
        /\ Keys(newsCache) # Configured

Answers(c) == calls[c].st # "returned" /\ calls'[c].st = "returned"

(* C18: a read for one provider returns the records of that provider's     *)
(* slot and of no other provider; a provider without a slot yields the     *)
(* empty sequence.                                                         *)
C18_ReadOneProvider ==
    [][\A c \in Calls :
          (Answers(c) /\ calls'[c].source # NoSource /\ calls'[c].ret.via # "throw")
             => LET p == toUpperCase(calls'[c].source)
                    items == calls'[c].ret.items
                IN /\ items = GetOrEmpty(newsCache', p)
                   /\ \A i \in 1..Len(items) : items[i].source = p
                   /\ ~HasKey(newsCache', p) => items = <<>>]_vars

(* C19: GET /api/news over the getCachedNews that returns articles         *)
(* answers 500 with an error and no data exactly when the refresh cycle    *)
(* of its read ended with a fault, which is when getCachedNews throws; in  *)
(* every other case, also when the fetches of a provider failed, it        *)
(* answers with the payload of data, last_updated and source.              *)
C19_RouteFailureOnlyOnThrow ==
    \A c \in Calls :
        (impl = "parallel" /\ calls[c].st = "returned") =>
            LET r == GET(calls[c])
            IN /\ (r.status = 500) <=> (cyc[c].st = "failed")
               /\ (cyc[c].st = "failed") <=> (calls[c].ret.via = "throw")
               /\ r.status = 500 => (r.error # "" /\ ~r.hasData)
               /\ r.status # 500 =>
                     /\ r.status = 200 /\ r.error = "" /\ r.hasData
                     /\ r.data = calls[c].ret.items
                     /\ r.last_updated = calls[c].ret.lastUpdated
                     /\ r.source = (IF calls[c].source = NoSource THEN "all"
                                  ELSE toUpperCase(calls[c].source))

(* one request is answered 500 after a fault, another is answered with the *)
(* payload although the fetches of its provider failed                     *)
C19_Witness ==
    /\ impl = "parallel"
    /\ \E c, d \in Calls :
          /\ calls[c].st = "returned" /\ GET(calls[c]).status = 500
          /\ calls[d].st = "returned" /\ cyc[d].st = "done"
          /\ calls[d].source = "bbc" /\ calls[d].ret.items = <<>>
          /\ GET(calls[d]).status = 200

SameSlot(p) ==
    /\ HasKey(newsCache', p) <=> HasKey(newsCache, p)
    /\ GetOrEmpty(newsCache', p) = GetOrEmpty(newsCache, p)

FastNames == {fastSources[i] : i \in 1..Len(fastSources)}

(* C20: merge on success.  The step that stores the non-empty result of a  *)
(* scraper that settled in time makes the slot of its provider exactly     *)
(* that result, and changes the slot of no provider whose result is not    *)
(* stored by the same step.                                                *)
C20_MergeOnSuccess ==
    [][\A c \in Calls :
          /\ (cyc[c].st = "fast" /\ cyc'[c].st = "slow") =>
                \A i \in 1..Len(fastSources), page \in Pages :
                   fastSettle(c, i, page) =>
                      LET fastResults == [cyc[c].fastRes EXCEPT
                             ![i] = Fulfilled(Scrape(fastSources[i], page))]
                      IN /\ \A j \in 1..Len(fastSources) :
                               Len(fastResults[j].value) > 0
                                  => GetOrEmpty(newsCache', fastSources[j])
                                        = fastResults[j].value
                         /\ \A p \in Configured \ FastNames : SameSlot(p)
          /\ (cyc[c].st = "slow" /\ cyc'[c].st # "failed") =>
                \A page \in Pages :
                   LET name == slowerSources[cyc[c].slowIdx]
                   IN (slowSettle(c, page) /\ Len(Scrape(name, page)) > 0) =>
                         /\ GetOrEmpty(newsCache', name) = Scrape(name, page)
                         /\ \A p \in Configured \ {name} : SameSlot(p)
          /\ (cyc[c].st = "all" /\ cyc'[c].st = "done") =>
                \A pages \in PageVectors :
                   allScraped(c, pages) =>
                      \A i \in 1..Len(allSources) :
                         Len(Scrape(allSources[i], pages[i])) > 0
                            => GetOrEmpty(newsCache', allSources[i])
                                  = Scrape(allSources[i], pages[i])]_vars

(* the records of REUTERS were stored next to those of the fast sources *)
C20_Witness ==
    \E c \in Calls :
        /\ cyc[c].st = "slow" /\ cyc[c].slowIdx = 2
        /\ "REUTERS" \notin cyc[c].abandoned
        /\ Len(GetOrEmpty(newsCache, "REUTERS")) > 0
        /\ Len(GetOrEmpty(newsCache, "BBC")) > 0

(* C21: fast tier first.  At the step that starts the first slower source  *)
(* of a cycle every fast source of that cycle has settled and its result   *)
(* is in the cache; while the slower sources are tried, the cycle writes   *)
(* no slot of a fast source any more.                                      *)
C21_FastTierFirst ==
    [][\A c \in Calls :
          /\ (StartsSlow(c) /\ cyc'[c].slowIdx = 1) =>
                /\ cyc[c].st = "fast"
                /\ \A j \in 1..Len(fastSources) :
                      /\ HasKey(newsCache', fastSources[j])
                      /\ IF cyc[c].fastRes[j].status = "fulfilled"
                         THEN Get(newsCache', fastSources[j]) = cyc[c].fastRes[j].value
                         ELSE \E page \in Pages :
                                 Get(newsCache', fastSources[j])
                                    = Scrape(fastSources[j], page)
          /\ (cyc[c].st = "slow" /\ cyc'[c] # cyc[c]) =>
                \A p \in FastNames : SameSlot(p)
          /\ (cyc'[c].st = "slow" /\ cyc[c].st # "slow") => cyc'[c].slowIdx = 1]_vars

(* the first slower source is being tried with the three fast slots filled *)
C21_Witness ==
    \E c \in Calls :
        /\ cyc[c].st = "slow" /\ cyc[c].slowIdx = 1
        /\ FastNames \subseteq Keys(newsCache)
        /\ Len(Get(newsCache, "WION")) > 0
        /\ ~HasKey(newsCache, "REUTERS")

(* C22: when the 50 s timer of a read fires before its cycle has finished, *)
(* lastUpdate is set to the current time, so a read arriving within the    *)
(* expiry time after the timed-out read starts no new cycle.               *)
C22_DeadlineStampsLastUpdate ==
    [][\A c \in Calls :
          /\ (Returns(c) /\ calls'[c].ret.via = "timeout" /\ Running(cyc[c]))
                => lastUpdate' = now
          /\ \A d \in Calls :
                (/\ impl = "tiered"
                 /\ calls[d].st = "returned" /\ calls[d].ret.via = "timeout"
                 /\ Arrives(c)
                 /\ now < calls[d].issuedAt + GLOBAL_TIMEOUT + CACHE_EXPIRY_SECONDS)
                => ~Running(cyc'[c])]_vars

(* the timer of the slower source that cycle c is trying fires in this step *)
TimesOut(c) ==
    /\ cyc[c].st = "slow"
    /\ now >= cyc[c].slowDeadline
    /\ slowerSources[cyc[c].slowIdx] \in cyc'[c].abandoned \ cyc[c].abandoned

(* C23: recovery from the timeout of a slower source.  When the timer of   *)
(* the source being tried fires first, its slot keeps its articles if it   *)
(* has any and otherwise becomes the entry of FALLBACK_NEWS (empty when    *)
(* there is none); no other slot changes, and the cycle goes on with the   *)
(* next slower source or, after the last one, ends.                        *)
C23_SlowTimeoutRecovery ==
    [][\A c \in Calls :
          TimesOut(c) =>
             LET name == slowerSources[cyc[c].slowIdx]
             IN /\ HasKey(newsCache', name)
                /\ Get(newsCache', name) =
                      IF GetOrEmpty(newsCache, name) # <<>>
                      THEN Get(newsCache, name) ELSE FallbackEntry(name)
                /\ \A p \in Configured \ {name} : SameSlot(p)
                /\ lastUpdate' = lastUpdate
                /\ IF cyc[c].slowIdx < Len(slowerSources)
                   THEN /\ cyc'[c].st = "slow"
                        /\ cyc'[c].slowIdx = cyc[c].slowIdx + 1
                        /\ cyc'[c].slowDeadline
                              = now + timeout(slowerSources[cyc[c].slowIdx + 1])
                   ELSE cyc'[c].st = "done"]_vars

(* REUTERS was given up by its timer in a cycle that found articles of an  *)
(* earlier cycle in the slot and kept them                                 *)
C23_Witness ==
    \E c \in Calls :
        /\ cyc[c].st = "slow" /\ cyc[c].slowIdx = 2
        /\ "REUTERS" \in cyc[c].abandoned
        /\ cyc[c].pre # <<>>
        /\ GetOrEmpty(newsCache, "REUTERS") # <<>>
        /\ \A d \in Calls \ {c} : ~Running(cyc[d])

(* the whole sequences that the code can assign to the slot of p: what one *)
(* run of its scraper returned, its FALLBACK_NEWS entry, its dummy entry   *)
WholeResults(p) ==
    {Scrape(p, page) : page \in Pages}
       \cup {FallbackEntry(p), GetOrEmpty(DummyData, p)}

(* C24: no torn slot.  At every moment each slot of the cache holds one    *)
(* whole result (of one scraper run, or the fallback or dummy entry),      *)
(* never a part of one or a mix of two, and a read of one provider is      *)
(* answered with such a whole result.                                      *)
C24_NoTornSlot ==
    /\ \A i \in 1..Len(newsCache) : newsCache[i].v \in WholeResults(newsCache[i].k)
    /\ \A c \in Calls :
          (calls[c].st = "returned" /\ calls[c].source # NoSource
              /\ calls[c].ret.via # "throw")
          => calls[c].ret.items \in WholeResults(toUpperCase(calls[c].source))

(* a read of BBC was answered from the cache while a cycle was writing     *)
(* slots, and the cache holds a slot of more than one article              *)
C24_Witness ==
    \E c, d \in Calls :
        /\ calls[c].st = "returned" /\ calls[c].source = "bbc"
        /\ calls[c].ret.via = "fresh" /\ calls[c].ret.items # <<>>
        /\ cyc[d].st = "slow" /\ cyc[d].slowIdx > 1
        /\ Len(GetOrEmpty(newsCache, "CNN")) > 1

(* how often article a occurs in the sequence items *)
Occurrences(items, a) == Cardinality({i \in 1..Len(items) : items[i] = a})

(* C25: the read of all news.  A read without a source is answered with    *)
(* the slots of the cache one after the other, each slot in its own order  *)
(* and nothing left out: an article occurs in the answer as often as in    *)
(* the slots together, so articles of two providers with the same url are  *)
(* both in it.                                                             *)
C25_AggregateIsConcatenation ==
    [][\A c \in Calls :
          (Returns(c) /\ calls[c].source = NoSource /\ calls'[c].ret.via # "throw")
          => LET items == calls'[c].ret.items
             IN /\ items = ConcatValues(newsCache')
                /\ \A i \in 1..Len(newsCache') :
                      \A j \in 1..Len(newsCache'[i].v) :
                         Occurrences(items, newsCache'[i].v[j])
                            >= Occurrences(newsCache'[i].v, newsCache'[i].v[j])
                /\ \A i, k \in 1..Len(newsCache') :
                      (i # k /\ newsCache'[i].v # <<>> /\ newsCache'[k].v # <<>>
                          /\ newsCache'[i].v[1].url = newsCache'[k].v[1].url)
                      => /\ Occurrences(items, newsCache'[i].v[1]) > 0
                         /\ Occurrences(items, newsCache'[k].v[1]) > 0]_vars

(* C26: slot ownership.  Every article stored under key p of the cache has *)
(* source = p, whether the slot was filled from the fast results by their  *)
(* index, by a slower source, by the eight results of the parallel         *)
(* implementation, or from FALLBACK_NEWS or the dummy data.                *)
C26_SlotOwnership ==
    \A i \in 1..Len(newsCache) :
       \A j \in 1..Len(newsCache[i].v) : newsCache[i].v[j].source = newsCache[i].k

(* the parallel implementation has filled its eight slots from scraped     *)
(* pages, the first and the sixth among them not empty                     *)
C26_Witness ==
    /\ impl = "parallel"
    /\ Keys(newsCache) = {allSources[i] : i \in 1..Len(allSources)}
    /\ GetOrEmpty(newsCache, "BBC") = Scrape("BBC", <<"a", "a">>)
    /\ GetOrEmpty(newsCache, "PTI") = Scrape("PTI", <<"a", "a">>)
    /\ GetOrEmpty(newsCache, "WION") = <<>>

(* the 50 s timer of read c wins the race in this step *)
TimerWins(c) == Returns(c) /\ calls'[c].ret.via = "timeout"

(* C27: the timeout path of a read writes no shared state.  The step in    *)
(* which the 50 s timer wins leaves newsCache, lastUpdate and every cycle  *)
(* as they were, so whether the next read finds the cache fresh is decided *)
(* by the lastUpdate that the still running cycle has or has not written.  *)
C27_TimeoutPathWritesNothing ==
    [][\A c \in Calls :
          /\ TimerWins(c) =>
                /\ newsCache' = newsCache
                /\ lastUpdate' = lastUpdate
                /\ cyc' = cyc
                /\ \A d \in Calls \ {c} : calls'[d] = calls[d]
          /\ (Arrives(c) /\ \E d \in Calls : GlobalFired(d)) =>
                (Running(cyc'[c]) <=> ~IsFreshTiered)]_vars

(* a read was answered by its timer while its cycle, still in the fast     *)
(* tier, goes on and lastUpdate is not written yet                         *)
C27_Witness ==
    \E c \in Calls :
        /\ GlobalFired(c)
        /\ cyc[c].st = "fast"
        /\ \E j \in 1..Len(fastSources) : cyc[c].fastRes[j].status = "fulfilled"
        /\ lastUpdate = Null
        /\ newsCache = <<>>

(* C28: every cycle ends.  With the scrapers of the fast sources settling  *)
(* and the timers firing, a started cycle of the tiered implementation     *)
(* comes to its end (or to its catch), however many scrapers of slower     *)
(* sources never settle: the timer of each slower source ends its turn.    *)
C28_CycleConcludes ==
    \A c \in Calls :
       (cyc[c].st \in {"fast", "slow"}) ~> (cyc[c].st \in {"done", "failed"})

(* a cycle has ended although none of its four slower sources settled      *)
C28_Witness ==
    \E c \in Calls :
        /\ cyc[c].st = "done"
        /\ cyc[c].abandoned = {slowerSources[i] : i \in 1..Len(slowerSources)}

(* C29: the listed sources are served.  Once a cycle has run to its end,   *)
(* the cache has, for every id that GET /api/news/sources lists, the slot  *)
(* that a read of that id looks up, the one under the id in upper case.    *)
C29_AdvertisedSourcesServed ==
    (\E c \in Calls : cyc[c].st = "done")
    => \A id \in AdvertisedSources : HasKey(newsCache, toUpperCase(id))

(* C30: the Home page under overlapping requests.  Whatever sources were   *)
(* selected, whenever Refresh was clicked and in whatever order the calls  *)
(* of fetchNews settle: when none is outstanding and none has failed, the  *)
(* articles shown are those of the active source; and isLoading is false   *)
(* only when no call is outstanding.                                       *)
C30_HomeShowsActiveSource ==
    /\ (ui.mounted /\ ui.fetches = {} /\ ~ui.error)
          => ui.articles = NewsData(ui.activeSource)
    /\ ~ui.isLoading => ui.fetches = {}

====
